---- MODULE Spec2Model ----
(***************************************************************************)
(* State-machine model of the social-media API: the relational tables of   *)
(* content/models.py and the request handlers of content/views.py and      *)
(* content/serializers.py.                                                 *)
(*                                                                         *)
(* A table is a set of rows, each row a record with its primary key `id`.  *)
(* Primary keys come from per-table sequences (`seq`) and are never        *)
(* reused.  The specifications:                                            *)
(*   Spec           the follow graph, one whole request handler per step   *)
(*   LikeSpec       posts and likes, one whole request handler per step    *)
(*   PostSpec       posts, likes, comments, hashtags, one handler per step *)
(*   ExtractSpec    the pure hashtag extractor applied to bounded texts    *)
(*   FollowConcSpec follow/unfollow split at their database statements     *)
(*                  and interleaved between concurrent request workers     *)
(*   LikeConcSpec   like/unlike, split and interleaved in the same way     *)
(*   CreateConcSpec post creation, its transaction interleaved with others *)
(*   AtomicSpec     the same steps for the posts of a single author        *)
(*   ScheduleSpec   post creation with a schedule_date, under a clock      *)
(*   ProfileSpec    registration and PATCH /me, one handler per step       *)
(*   DestroySpec    DELETE /me and the handlers that insert rows, one      *)
(*                  whole request handler per step                         *)
(*   DestroyConcSpec DELETE /me split at its two deletes, interleaved with *)
(*                  the requests that insert rows                          *)
(***************************************************************************)
EXTENDS Integers, Sequences, FiniteSets, TLC

VARIABLES
    users,          \* auth user table: set of user ids
    profiles,       \* content.Profile rows      [id, user, username]
    follows,        \* content.Follow rows       [id, follower, following]
    hashtags,       \* content.Hashtag rows      [id, title]
    posts,          \* content.Post rows         [id, author, text,
                    \*                            schedule_date, pub_date]
    post_hashtags,  \* Post.hashtags M2M rows    [post, hashtag]
    likes,          \* content.PostLike rows     [id, post, liked_by]
    comments,       \* content.Comment rows      [id, post, author]
    seq,            \* last primary key handed out, per table
    resp,           \* the response of the request that finished last
    reqs,           \* requests in flight, per worker (ConcSpec only)
    post_text,      \* ExtractSpec: the text handed to determine_hashtags
    extracted,      \* ExtractSpec: what determine_hashtags returned for it
    now             \* the clock that auto_now_add reads (timezone.now())

vars == <<users, profiles, follows, hashtags, posts, post_hashtags, likes,
          comments, seq, resp, reqs, post_text, extracted, now>>

----------------------------------------------------------------------------
(* Bounds of the model *)

MaxUsers == 3           \* users that register
MaxFollowRows == 3      \* Follow primary keys handed out, one request at a time
MaxConcFollowRows == 2  \* Follow primary keys handed out, concurrent requests
MaxPosts == 1           \* Post primary keys handed out, one request at a time
MaxTxnPosts == 3        \* Post primary keys handed out, concurrent transactions
MaxTxnUsers == 1        \* users that register in AtomicSpec
MaxDestroyUsers == 2    \* users that register in DestroySpec, DestroyConcSpec
MaxDestroyRows == 4     \* rows inserted in DestroySpec, all tables together
MaxLikeRows == 2        \* PostLike primary keys handed out
MaxComments == 1        \* Comment primary keys handed out
MaxHashtagRows == 3     \* Hashtag primary keys handed out
MaxTextLen == 4         \* length of a text handed to the extractor
MaxTime == 2            \* ticks of the clock

ProfilePks == 1..MaxUsers
PostPks == 1..MaxTxnPosts

\* the request workers of the concurrent specifications: two requests race
Workers == {"w1", "w2"}

----------------------------------------------------------------------------
(* Responses *)

HTTP_200_OK == "200"
HTTP_201_CREATED == "201"
HTTP_204_NO_CONTENT == "204"
HTTP_400_BAD_REQUEST == "400"
HTTP_404_NOT_FOUND == "404"
HTTP_409_CONFLICT == "409"
\* exceptions no handler catches: the framework answers 500
IntegrityError == "IntegrityError"
MultipleObjectsReturned == "MultipleObjectsReturned"
RelatedObjectDoesNotExist == "RelatedObjectDoesNotExist"

\* what the model keeps of a response: the operation and the status
Response(op, user, pk, status) == [op |-> op, status |-> status]

NoResponse == Response("none", 0, 0, "none")
NoRequest == [op |-> "none", pc |-> "idle", user |-> 0, pk |-> 0,
              a |-> 0, b |-> 0, row |-> 0, text |-> <<>>, todo |-> {},
              new_tags |-> {}, tag_ids |-> {}, pub_date |-> 0]

----------------------------------------------------------------------------
(* Users and profiles *)

\* Profile.objects.filter(user=u)
ProfilesOfUser(u) == {p \in profiles : p.user = u}

\* Profile.objects.filter(pk=pk)
ProfilesByPk(pk) == {p \in profiles : p.id = pk}

\* Profile.objects.get(user=u), user.profile: the pk of the profile of user u
ProfilePk(u) == (CHOOSE p \in ProfilesOfUser(u) : TRUE).id

\* the post_save receiver of User: the Profile rows after it ran for user u;
\* a created user gets a Profile, a saved one none.  Profile.objects.create
\* names no username: the CharField's default, the empty string
create_user_profile_post_save(u, created) ==
    IF created
    THEN profiles \cup
             {[id |-> seq.profile + 1, user |-> u, username |-> ""]}
    ELSE profiles

\* POST /user/register: CreateUserView saves a new user, the signal fires
CreateUser ==
    /\ seq.user < MaxUsers
    /\ users' = users \cup {seq.user + 1}
    /\ profiles' = create_user_profile_post_save(seq.user + 1, TRUE)
    /\ seq' = [seq EXCEPT !.user = @ + 1, !.profile = @ + 1]
    /\ resp' = Response("register", seq.user + 1, 0, HTTP_201_CREATED)
    /\ UNCHANGED <<follows, hashtags, posts, post_hashtags, likes, comments,
                   reqs, post_text, extracted, now>>

\* PUT/PATCH of ManageUserView: serializer.save() saves the existing user,
\* the signal fires with created=False
UpdateUser(u) ==
    /\ u \in users
    /\ profiles' = create_user_profile_post_save(u, FALSE)
    /\ resp' = Response("update_user", u, 0, HTTP_200_OK)
    /\ UNCHANGED <<users, follows, hashtags, posts, post_hashtags, likes,
                   comments, seq, reqs, post_text, extracted, now>>

\* the usernames clients send
Usernames == {"a", "b", "c"}

\* PATCH /me with a username: CurrentUserProfileView's update, get_object
\* and serializer.save(); Profile.username carries no unique constraint and
\* ProfileSerializer no validator
partial_update(u, username) ==
    /\ u \in users
    /\ IF ProfilesOfUser(u) = {}
       THEN /\ resp' = Response("partial_update", u, 0, HTTP_404_NOT_FOUND)
            /\ UNCHANGED profiles
       ELSE /\ profiles' = {IF p.user = u
                            THEN [p EXCEPT !.username = username]
                            ELSE p : p \in profiles}
            /\ resp' = Response("partial_update", u, 0, HTTP_200_OK)
    /\ UNCHANGED <<users, follows, hashtags, posts, post_hashtags, likes,
                   comments, seq, reqs, post_text, extracted, now>>

----------------------------------------------------------------------------
(* Follow / unfollow *)

\* Follow.objects.filter(follower=a, following=b)
FollowRows(rows, a, b) == {f \in rows : f.follower = a /\ f.following = b}

\* Follow.Meta.unique_together: may a row (a, b) be inserted into rows?
FollowUniqueNoConstraint(rows, a, b) == TRUE
FollowUnique(rows, a, b) == FollowRows(rows, a, b) = {}

\* ProfileViewSet.follow up to the existence check: the response it returns
\* early, or "create" when it goes on to Follow.objects.create
FollowCheckNoSelfCheck(u, pk) ==
    IF ProfilesOfUser(u) = {} \/ ProfilesByPk(pk) = {} THEN HTTP_404_NOT_FOUND
    ELSE IF FollowRows(follows, ProfilePk(u), pk) # {} THEN HTTP_409_CONFLICT
    ELSE "create"
FollowCheck(u, pk) ==
    IF ProfilesOfUser(u) = {} \/ ProfilesByPk(pk) = {} THEN HTTP_404_NOT_FOUND
    ELSE IF ProfilePk(u) = pk THEN HTTP_400_BAD_REQUEST
    ELSE IF FollowRows(follows, ProfilePk(u), pk) # {} THEN HTTP_409_CONFLICT
    ELSE "create"

\* Follow.objects.create(follower=a, following=b) and the response after it;
\* the insert violates a foreign key when a profile is gone by now
FollowCreate(op, u, a, b) ==
    IF /\ FollowUnique(follows, a, b)
       /\ ProfilesByPk(a) # {} /\ ProfilesByPk(b) # {}
    THEN /\ follows' = follows \cup
                {[id |-> seq.follow + 1, follower |-> a, following |-> b]}
         /\ seq' = [seq EXCEPT !.follow = @ + 1]
         /\ resp' = Response(op, u, b, HTTP_204_NO_CONTENT)
    ELSE /\ resp' = Response(op, u, b, IntegrityError)
         /\ UNCHANGED <<follows, seq>>

\* POST /profiles/{pk}/follow handled without interleaving
follow(u, pk) ==
    /\ u \in users
    /\ LET chk == FollowCheck(u, pk) IN
       IF chk # "create"
       THEN /\ resp' = Response("follow", u, pk, chk)
            /\ UNCHANGED <<follows, seq>>
       ELSE /\ seq.follow < MaxFollowRows
            /\ FollowCreate("follow", u, ProfilePk(u), pk)
    /\ UNCHANGED <<users, profiles, hashtags, posts, post_hashtags, likes,
                   comments, reqs, post_text, extracted, now>>

\* subscription.delete(): DELETE FROM follow WHERE id = row
DeleteNothing(rows, row) == rows
DeleteByPk(rows, row) == {r \in rows : r.id # row}

\* Model.objects.get(...): found, or the exception it raises
GetOne(matching) ==
    IF matching = {} THEN "DoesNotExist"
    ELSE IF Cardinality(matching) > 1 THEN MultipleObjectsReturned
    ELSE "found"

\* POST /profiles/{pk}/unfollow handled without interleaving
unfollow(u, pk) ==
    /\ u \in users
    /\ IF ProfilesOfUser(u) = {} \/ ProfilesByPk(pk) = {}
       THEN /\ resp' = Response("unfollow", u, pk, HTTP_404_NOT_FOUND)
            /\ UNCHANGED follows
       ELSE LET matching == FollowRows(follows, ProfilePk(u), pk)
                got == GetOne(matching)
            IN  IF got = "found"
                THEN /\ follows' = DeleteByPk(follows,
                                       (CHOOSE f \in matching : TRUE).id)
                     /\ resp' = Response("unfollow", u, pk, HTTP_204_NO_CONTENT)
                ELSE IF got = "DoesNotExist"
                THEN /\ resp' = Response("unfollow", u, pk, HTTP_404_NOT_FOUND)
                     /\ UNCHANGED follows
                ELSE /\ resp' = Response("unfollow", u, pk, got)
                     /\ UNCHANGED follows
    /\ UNCHANGED <<users, profiles, hashtags, posts, post_hashtags, likes,
                   comments, seq, reqs, post_text, extracted, now>>

----------------------------------------------------------------------------
(* Profile queries: Count("followers"), Count("following") *)

\* SQL NULL in a LEFT OUTER JOIN column
NULL == {}

\* the column a LEFT OUTER JOIN contributes for one parent row: the pks of the
\* matching child rows, or a single NULL when there is none
LeftJoin(rows) == IF rows = {} THEN {NULL} ELSE {{r.id} : r \in rows}

\* Profile LEFT JOIN Follow (followers) LEFT JOIN Follow (following),
\* the joined rows of profile pk before GROUP BY
ProfileJoin(pk) ==
    LeftJoin({f \in follows : f.following = pk})
        \X LeftJoin({f \in follows : f.follower = pk})

\* COUNT(col) counts the joined rows whose column is not NULL
CountColumn(joined, col) == Cardinality({j \in joined : j[col] # NULL})

\* ProfileViewSet.get_queryset / CurrentUserProfileView.get_queryset:
\* the annotations of profile pk
ProfileAnnotations(pk) ==
    [followers_count |-> CountColumn(ProfileJoin(pk), 1),
     following_count |-> CountColumn(ProfileJoin(pk), 2)]

\* is_followed_by_me=Exists(Follow.objects.filter(follower__user=u, following=pk))
is_followed_by_me(u, pk) ==
    \E f \in follows : f.following = pk
        /\ \E p \in ProfilesOfUser(u) : p.id = f.follower

----------------------------------------------------------------------------
(* Hashtag extractor: PostSerializer.determine_hashtags *)

\* a text is a sequence of characters
Whitespace == {" ", "\n"}
Alphabet == {"#", "a", "A"} \cup Whitespace

RECURSIVE SplitFrom(_, _, _)
SplitFrom(s, word, acc) ==
    IF s = <<>>
    THEN IF word = <<>> THEN acc ELSE Append(acc, word)
    ELSE IF Head(s) \in Whitespace
    THEN SplitFrom(Tail(s), <<>>, IF word = <<>> THEN acc ELSE Append(acc, word))
    ELSE SplitFrom(Tail(s), Append(word, Head(s)), acc)

\* str.split(): the list of the maximal runs of non-whitespace characters
split(s) == SplitFrom(s, <<>>, <<>>)

\* str.startswith(c)
startswith(w, c) == Len(w) > 0 /\ w[1] = c

RECURSIVE lstrip(_, _)
lstrip(w, c) == IF w # <<>> /\ Head(w) = c THEN lstrip(Tail(w), c) ELSE w

RECURSIVE rstrip(_, _)
rstrip(w, c) ==
    IF w # <<>> /\ w[Len(w)] = c THEN rstrip(SubSeq(w, 1, Len(w) - 1), c) ELSE w

\* str.strip(c): every leading and every trailing c removed
strip(w, c) == rstrip(lstrip(w, c), c)

determine_hashtags(text) ==
    LET words == split(text) IN
    {strip(words[i], "#") : i \in {k \in DOMAIN words : startswith(words[k], "#")}}

----------------------------------------------------------------------------
(* Posts, hashtags, comments *)

\* the texts clients post in PostSpec and ConcSpec
SampleTexts == {<<"#", "a">>, <<"#", "a", " ", "#", "A">>, <<"a">>}

\* Hashtag.objects.filter(title=t) over the rows a request sees
HashtagRows(rows, t) == {h \in rows : h.title = t}

\* the ways to hand the next primary keys to the titles to insert, in the
\* order the loop over the set of titles meets them
NewPks(titles, last) ==
    {f \in [titles -> (last + 1)..(last + Cardinality(titles))] :
        \A s, t \in titles : s # t => f[s] # f[t]}

\* Hashtag.objects.get_or_create(title=t): is a row to be created?
MissingTitles(rows, titles) == {t \in titles : HashtagRows(rows, t) = {}}

\* get_or_create's get() raises MultipleObjectsReturned on a doubled title
DoubledTitles(rows, titles) ==
    {t \in titles : Cardinality(HashtagRows(rows, t)) > 1}

\* with transaction.atomic(): the rows of a table when the block is left,
\* from the committed rows and the rows the block wrote; an exception that
\* leaves the block rolls its writes back
atomicNoRollback(committed, written, failed) == committed \cup written
atomic(committed, written, failed) ==
    IF failed THEN committed ELSE committed \cup written

\* Post.objects.create(**validated_data): the row inserted.  schedule_date
\* is NULL when validated_data has no such key (the field's default=None),
\* else the one datetime the client sent; pub_date is auto_now_add
PostRow(pk, author, text, schedule_date, pub_date) ==
    [id |-> pk, author |-> author, text |-> text,
     schedule_date |-> schedule_date, pub_date |-> pub_date]

\* POST /posts/: PostViewSet.perform_create and PostSerializer.create,
\* handled without interleaving
perform_create(u, text, schedule_date) ==
    /\ u \in users
    /\ seq.post < MaxPosts
    /\ LET tags == determine_hashtags(text)
           missing == MissingTitles(hashtags, tags)
       IN  IF ProfilesOfUser(u) = {}
           THEN \* self.request.user.profile raises in perform_create
                /\ resp' = Response("create", u, 0, RelatedObjectDoesNotExist)
                /\ UNCHANGED <<posts, hashtags, post_hashtags, seq>>
           ELSE IF DoubledTitles(hashtags, tags) # {}
           THEN \* the exception leaves transaction.atomic(): rolled back
                /\ posts' = atomic(posts,
                      {PostRow(seq.post + 1, ProfilePk(u), text,
                               schedule_date, now)}, TRUE)
                /\ hashtags' = atomic(hashtags, {}, TRUE)
                /\ post_hashtags' = atomic(post_hashtags, {}, TRUE)
                /\ seq' = [seq EXCEPT !.post = @ + 1]
                /\ resp' = Response("create", u, 0, MultipleObjectsReturned)
           ELSE /\ seq.hashtag + Cardinality(missing) <= MaxHashtagRows
                /\ \E pks \in NewPks(missing, seq.hashtag) :
                     LET post == seq.post + 1
                         rows == hashtags \cup
                                   {[id |-> pks[t], title |-> t] : t \in missing}
                     IN  /\ posts' = atomic(posts,
                               {PostRow(post, ProfilePk(u), text,
                                        schedule_date, now)}, FALSE)
                         /\ hashtags' = atomic(hashtags, rows, FALSE)
                         /\ post_hashtags' = atomic(post_hashtags,
                               {[post |-> post, hashtag |-> h.id] :
                                   h \in {r \in rows : r.title \in tags}},
                               FALSE)
                         /\ seq' = [seq EXCEPT !.post = post,
                                       !.hashtag = @ + Cardinality(missing)]
                         /\ resp' = Response("create", u, post, HTTP_201_CREATED)
    /\ UNCHANGED <<users, profiles, follows, likes, comments, reqs, post_text,
                   extracted, now>>

\* POST /posts/ with no schedule_date in the request
create(u, text) == perform_create(u, text, NULL)

\* the schedule_date of a request: left out, or a datetime
ScheduleDates == {NULL} \cup {{t} : t \in 0..MaxTime}

\* the Celery task create_scheduled_post(post_data): the schedule_date is
\* popped and the Post inserted, with no hashtags.  No request handler
\* enqueues the task (no .delay() or .apply_async() in views.py or
\* serializers.py), so it is a step of no specification
create_scheduled_post(post_data) ==
    /\ posts' = posts \cup
          {PostRow(seq.post + 1, post_data.author, post_data.text, NULL, now)}
    /\ seq' = [seq EXCEPT !.post = @ + 1]
    /\ UNCHANGED <<users, profiles, follows, hashtags, post_hashtags, likes,
                   comments, resp, reqs, post_text, extracted, now>>

\* time passes
Tick ==
    /\ now < MaxTime
    /\ now' = now + 1
    /\ UNCHANGED <<users, profiles, follows, hashtags, posts, post_hashtags,
                   likes, comments, seq, resp, reqs, post_text, extracted>>

\* POST /posts/{post_id}/comments/: CommentViewSet.perform_create
CommentCreate(u, pk) ==
    /\ u \in users
    /\ IF {p \in posts : p.id = pk} = {}
       THEN /\ resp' = Response("comment", u, pk, HTTP_404_NOT_FOUND)
            /\ UNCHANGED <<comments, seq>>
       ELSE IF ProfilesOfUser(u) = {}
       THEN /\ resp' = Response("comment", u, pk, RelatedObjectDoesNotExist)
            /\ UNCHANGED <<comments, seq>>
       ELSE /\ seq.comment < MaxComments
            /\ comments' = comments \cup
                  {[id |-> seq.comment + 1, post |-> pk, author |-> ProfilePk(u)]}
            /\ seq' = [seq EXCEPT !.comment = @ + 1]
            /\ resp' = Response("comment", u, pk, HTTP_201_CREATED)
    /\ UNCHANGED <<users, profiles, follows, hashtags, posts, post_hashtags,
                   likes, reqs, post_text, extracted, now>>

----------------------------------------------------------------------------
(* Like / unlike *)

\* PostLike.objects.filter(liked_by=a, post=pk)
LikeRows(rows, a, pk) == {l \in rows : l.liked_by = a /\ l.post = pk}

\* PostLike declares its unique_together in a class named Mets, which the
\* ORM does not read: no constraint guards the insert
PostLikeUnique(rows, a, pk) == TRUE

\* PostViewSet.like up to the existence check; request.user.profile raises
\* RelatedObjectDoesNotExist for a user whose Profile is gone
LikeCheckNothing(u, pk) ==
    IF {p \in posts : p.id = pk} = {} THEN HTTP_404_NOT_FOUND
    ELSE IF ProfilesOfUser(u) = {} THEN RelatedObjectDoesNotExist
    ELSE "create"
LikeCheck(u, pk) ==
    IF {p \in posts : p.id = pk} = {} THEN HTTP_404_NOT_FOUND
    ELSE IF ProfilesOfUser(u) = {} THEN RelatedObjectDoesNotExist
    ELSE IF LikeRows(likes, ProfilePk(u), pk) # {} THEN HTTP_409_CONFLICT
    ELSE "create"

\* PostLike.objects.create(liked_by=a, post=pk) and the response after it;
\* the insert violates a foreign key when the profile or the post is gone
LikeCreate(u, a, pk) ==
    IF /\ PostLikeUnique(likes, a, pk)
       /\ ProfilesByPk(a) # {} /\ \E p \in posts : p.id = pk
    THEN /\ likes' = likes \cup
              {[id |-> seq.like + 1, post |-> pk, liked_by |-> a]}
         /\ seq' = [seq EXCEPT !.like = @ + 1]
         /\ resp' = Response("like", u, pk, HTTP_204_NO_CONTENT)
    ELSE /\ resp' = Response("like", u, pk, IntegrityError)
         /\ UNCHANGED <<likes, seq>>

\* POST /posts/{pk}/like handled without interleaving
like(u, pk) ==
    /\ u \in users
    /\ LET chk == LikeCheck(u, pk) IN
       IF chk # "create"
       THEN /\ resp' = Response("like", u, pk, chk)
            /\ UNCHANGED <<likes, seq>>
       ELSE /\ seq.like < MaxLikeRows
            /\ LikeCreate(u, ProfilePk(u), pk)
    /\ UNCHANGED <<users, profiles, follows, hashtags, posts, post_hashtags,
                   comments, reqs, post_text, extracted, now>>

\* POST /posts/{pk}/unlike handled without interleaving
unlike(u, pk) ==
    /\ u \in users
    /\ IF {p \in posts : p.id = pk} = {}
       THEN /\ resp' = Response("unlike", u, pk, HTTP_404_NOT_FOUND)
            /\ UNCHANGED likes
       ELSE IF ProfilesOfUser(u) = {}
       THEN /\ resp' = Response("unlike", u, pk, RelatedObjectDoesNotExist)
            /\ UNCHANGED likes
       ELSE LET matching == LikeRows(likes, ProfilePk(u), pk)
                got == GetOne(matching)
            IN  IF got = "found"
                THEN /\ likes' = DeleteByPk(likes,
                                     (CHOOSE l \in matching : TRUE).id)
                     /\ resp' = Response("unlike", u, pk, HTTP_204_NO_CONTENT)
                ELSE IF got = "DoesNotExist"
                THEN /\ resp' = Response("unlike", u, pk, HTTP_404_NOT_FOUND)
                     /\ UNCHANGED likes
                ELSE /\ resp' = Response("unlike", u, pk, got)
                     /\ UNCHANGED likes
    /\ UNCHANGED <<users, profiles, follows, hashtags, posts, post_hashtags,
                   comments, seq, reqs, post_text, extracted, now>>

----------------------------------------------------------------------------
(* Post queries: Count("likes"), Count("comments"), Exists(PostLike) *)

RECURSIVE SplitOnFrom(_, _, _, _)
SplitOnFrom(s, sep, word, acc) ==
    IF s = <<>> THEN Append(acc, word)
    ELSE IF Head(s) = sep
    THEN SplitOnFrom(Tail(s), sep, <<>>, Append(acc, word))
    ELSE SplitOnFrom(Tail(s), sep, Append(word, Head(s)), acc)

\* hashtags.strip("/").split(","): the titles of a ?hashtags= parameter
ParamTitles(param) ==
    LET parts == SplitOnFrom(strip(param, "/"), ",", <<>>, <<>>) IN
    {parts[i] : i \in DOMAIN parts}

\* the ?hashtags= parameters clients send; <<>> is the parameter left out
SampleParams == {<<>>, <<"a">>, <<"a", ",", "A">>}

\* the column an INNER JOIN contributes: the pks of the matching rows
InnerJoin(rows) == {{r.id} : r \in rows}

\* the Hashtag rows of post pk joined by filter(hashtags__title__in=titles)
HashtagJoin(pk, titles) ==
    InnerJoin({h \in hashtags : /\ h.title \in titles
                                /\ [post |-> pk, hashtag |-> h.id] \in post_hashtags})

\* PostViewSet.get_queryset: the joined rows of post pk before GROUP BY.
\* Post LEFT JOIN PostLike LEFT JOIN Comment, an INNER JOIN of the post's
\* hashtags when the request carries ?hashtags=, and whatever INNER JOIN the
\* endpoint's own filter adds (NoJoin when it adds none)
NoJoin == {NULL}
PostJoin(pk, param, endpoint_join) ==
    LeftJoin({l \in likes : l.post = pk})
        \X LeftJoin({c \in comments : c.post = pk})
        \X (IF param # <<>> THEN HashtagJoin(pk, ParamTitles(param)) ELSE NoJoin)
        \X endpoint_join

\* the annotations of one post for viewer u, from its joined rows
PostAnnotations(pk, u, joined) ==
    [id |-> pk,
     likes_count |-> CountColumn(joined, 1),
     comments_count |-> CountColumn(joined, 2),
     liked_by_user |-> LikeRows(likes, ProfilePk(u), pk) # {}]

\* the posts of a queryset, annotated: those with a joined row;
\* endpoint_join maps a post's pk to the INNER JOIN the endpoint adds
Annotated(u, param, candidates, endpoint_join) ==
    {PostAnnotations(p.id, u, PostJoin(p.id, param, endpoint_join[p.id])) :
        p \in {q \in candidates : PostJoin(q.id, param, endpoint_join[q.id]) # {}}}

\* GET /posts/ and GET /posts/{pk}/: the queryset as it stands
list(u, param) ==
    Annotated(u, param, posts, [pk \in PostPks |-> NoJoin])

\* GET /posts/my-posts/: get_queryset().filter(author=user_profile)
my_posts(u, param) ==
    Annotated(u, param, {q \in posts : q.author = ProfilePk(u)},
              [pk \in PostPks |-> NoJoin])

\* GET /posts/feed/: get_queryset().filter(author__in=followed_profiles)
feed(u, param) ==
    Annotated(u, param,
              {q \in posts : FollowRows(follows, ProfilePk(u), q.author) # {}},
              [pk \in PostPks |-> NoJoin])

\* GET /posts/liked/: get_queryset().filter(likes__liked_by=user_profile),
\* one more INNER JOIN of PostLike, on the viewer's rows
liked(u, param) ==
    Annotated(u, param, posts,
              [pk \in PostPks |-> InnerJoin(LikeRows(likes, ProfilePk(u), pk))])

----------------------------------------------------------------------------
(* Concurrent requests: each handler split at its database statements.     *)
(* A worker runs one request at a time; the statements of the requests of  *)
(* different workers interleave.  A transaction's writes are seen by the   *)
(* other workers once it commits (READ COMMITTED).                         *)

Idle(w) == reqs[w].pc = "idle"

\* the requests in flight that go on to insert into a table
Pending(op) == Cardinality({w \in Workers : reqs[w].op = op /\ reqs[w].pc = "create"})

\* the responses of a worker's request, and the worker is free again
Finish(w, op, status) ==
    /\ resp' = Response(op, reqs[w].user, reqs[w].pk, status)
    /\ reqs' = [reqs EXCEPT ![w] = NoRequest]

\* ProfileViewSet.follow, the two lookups, the self check and the
\* existence check
FollowStart(w, u, pk) ==
    /\ Idle(w)
    /\ u \in users
    /\ LET chk == FollowCheck(u, pk) IN
       IF chk # "create"
       THEN /\ resp' = Response("follow", u, pk, chk)
            /\ UNCHANGED reqs
       ELSE /\ seq.follow + Pending("follow") < MaxConcFollowRows
            /\ reqs' = [reqs EXCEPT ![w] =
                  [NoRequest EXCEPT !.op = "follow", !.pc = "create",
                                    !.user = u, !.a = ProfilePk(u), !.pk = pk]]
            /\ UNCHANGED resp
    /\ UNCHANGED <<users, profiles, follows, hashtags, posts, post_hashtags,
                   likes, comments, seq, post_text, extracted, now>>

\* ProfileViewSet.follow, Follow.objects.create and the response
FollowInsert(w) ==
    /\ reqs[w].op = "follow" /\ reqs[w].pc = "create"
    /\ FollowCreate("follow", reqs[w].user, reqs[w].a, reqs[w].pk)
    /\ reqs' = [reqs EXCEPT ![w] = NoRequest]
    /\ UNCHANGED <<users, profiles, hashtags, posts, post_hashtags, likes,
                   comments, post_text, extracted, now>>

\* ProfileViewSet.unfollow, the two lookups and Follow.objects.get
UnfollowStart(w, u, pk) ==
    /\ Idle(w)
    /\ u \in users
    /\ IF ProfilesOfUser(u) = {} \/ ProfilesByPk(pk) = {}
       THEN /\ resp' = Response("unfollow", u, pk, HTTP_404_NOT_FOUND)
            /\ UNCHANGED reqs
       ELSE LET matching == FollowRows(follows, ProfilePk(u), pk)
                got == GetOne(matching)
            IN  IF got = "found"
                THEN /\ reqs' = [reqs EXCEPT ![w] =
                           [NoRequest EXCEPT !.op = "unfollow", !.pc = "delete",
                               !.user = u, !.a = ProfilePk(u), !.pk = pk,
                               !.row = (CHOOSE f \in matching : TRUE).id]]
                     /\ UNCHANGED resp
                ELSE /\ resp' = Response("unfollow", u, pk,
                                   IF got = "DoesNotExist"
                                   THEN HTTP_404_NOT_FOUND ELSE got)
                     /\ UNCHANGED reqs
    /\ UNCHANGED <<users, profiles, follows, hashtags, posts, post_hashtags,
                   likes, comments, seq, post_text, extracted, now>>

\* ProfileViewSet.unfollow, subscription.delete() and the response
UnfollowDelete(w) ==
    /\ reqs[w].op = "unfollow" /\ reqs[w].pc = "delete"
    /\ follows' = DeleteByPk(follows, reqs[w].row)
    /\ Finish(w, "unfollow", HTTP_204_NO_CONTENT)
    /\ UNCHANGED <<users, profiles, hashtags, posts, post_hashtags, likes,
                   comments, seq, post_text, extracted, now>>

\* PostViewSet.like, the post lookup and the existence check
LikeStart(w, u, pk) ==
    /\ Idle(w)
    /\ u \in users
    /\ LET chk == LikeCheck(u, pk) IN
       IF chk # "create"
       THEN /\ resp' = Response("like", u, pk, chk)
            /\ UNCHANGED reqs
       ELSE /\ seq.like + Pending("like") < MaxLikeRows
            /\ reqs' = [reqs EXCEPT ![w] =
                  [NoRequest EXCEPT !.op = "like", !.pc = "create",
                                    !.user = u, !.a = ProfilePk(u), !.pk = pk]]
            /\ UNCHANGED resp
    /\ UNCHANGED <<users, profiles, follows, hashtags, posts, post_hashtags,
                   likes, comments, seq, post_text, extracted, now>>

\* PostViewSet.like, PostLike.objects.create and the response
LikeInsert(w) ==
    /\ reqs[w].op = "like" /\ reqs[w].pc = "create"
    /\ LikeCreate(reqs[w].user, reqs[w].a, reqs[w].pk)
    /\ reqs' = [reqs EXCEPT ![w] = NoRequest]
    /\ UNCHANGED <<users, profiles, follows, hashtags, posts, post_hashtags,
                   comments, post_text, extracted, now>>

\* PostViewSet.unlike, the post lookup and PostLike.objects.get
UnlikeStart(w, u, pk) ==
    /\ Idle(w)
    /\ u \in users
    /\ IF {p \in posts : p.id = pk} = {}
       THEN /\ resp' = Response("unlike", u, pk, HTTP_404_NOT_FOUND)
            /\ UNCHANGED reqs
       ELSE IF ProfilesOfUser(u) = {}
       THEN /\ resp' = Response("unlike", u, pk, RelatedObjectDoesNotExist)
            /\ UNCHANGED reqs
       ELSE LET matching == LikeRows(likes, ProfilePk(u), pk)
                got == GetOne(matching)
            IN  IF got = "found"
                THEN /\ reqs' = [reqs EXCEPT ![w] =
                           [NoRequest EXCEPT !.op = "unlike", !.pc = "delete",
                               !.user = u, !.a = ProfilePk(u), !.pk = pk,
                               !.row = (CHOOSE l \in matching : TRUE).id]]
                     /\ UNCHANGED resp
                ELSE /\ resp' = Response("unlike", u, pk,
                                   IF got = "DoesNotExist"
                                   THEN HTTP_404_NOT_FOUND ELSE got)
                     /\ UNCHANGED reqs
    /\ UNCHANGED <<users, profiles, follows, hashtags, posts, post_hashtags,
                   likes, comments, seq, post_text, extracted, now>>

\* PostViewSet.unlike, like.delete() and the response
UnlikeDelete(w) ==
    /\ reqs[w].op = "unlike" /\ reqs[w].pc = "delete"
    /\ likes' = DeleteByPk(likes, reqs[w].row)
    /\ Finish(w, "unlike", HTTP_204_NO_CONTENT)
    /\ UNCHANGED <<users, profiles, follows, hashtags, posts, post_hashtags,
                   comments, seq, post_text, extracted, now>>

\* PostSerializer.create, entering transaction.atomic() and
\* Post.objects.create: the row is the transaction's own until it commits.
\* The concurrent requests carry no schedule_date
CreateStart(w, u, text) ==
    /\ Idle(w)
    /\ u \in users
    /\ seq.post < MaxTxnPosts
    /\ IF ProfilesOfUser(u) = {}
       THEN \* self.request.user.profile raises in perform_create
            /\ resp' = Response("create", u, 0, RelatedObjectDoesNotExist)
            /\ UNCHANGED <<seq, reqs>>
       ELSE /\ seq' = [seq EXCEPT !.post = @ + 1]
            /\ reqs' = [reqs EXCEPT ![w] =
                  [NoRequest EXCEPT !.op = "create", !.pc = "tags", !.user = u,
                                    !.a = ProfilePk(u), !.pk = seq.post + 1,
                                    !.text = text,
                                    !.todo = determine_hashtags(text),
                                    !.pub_date = now]]
            /\ UNCHANGED resp
    /\ UNCHANGED <<users, profiles, follows, hashtags, posts, post_hashtags,
                   likes, comments, post_text, extracted, now>>

\* Post.objects.create(**validated_data): the row the transaction of
\* worker w wrote
OwnPost(w) ==
    PostRow(reqs[w].pk, reqs[w].a, reqs[w].text, NULL, reqs[w].pub_date)

\* PostSerializer.create, one turn of the loop:
\* Hashtag.objects.get_or_create(title=t) over the committed rows and the
\* transaction's own
CreateGetOrCreate(w, t) ==
    /\ reqs[w].op = "create" /\ reqs[w].pc = "tags"
    /\ t \in reqs[w].todo
    /\ LET visible == hashtags \cup reqs[w].new_tags
       IN  IF DoubledTitles(visible, {t}) # {}
           THEN \* the exception leaves transaction.atomic(): rolled back
                /\ posts' = atomic(posts, {OwnPost(w)}, TRUE)
                /\ hashtags' = atomic(hashtags, reqs[w].new_tags, TRUE)
                /\ post_hashtags' = atomic(post_hashtags, {}, TRUE)
                /\ Finish(w, "create", MultipleObjectsReturned)
                /\ UNCHANGED seq
           ELSE IF MissingTitles(visible, {t}) # {}
           THEN /\ seq.hashtag < MaxHashtagRows
                /\ seq' = [seq EXCEPT !.hashtag = @ + 1]
                /\ reqs' = [reqs EXCEPT
                      ![w].todo = @ \ {t},
                      ![w].new_tags = @ \cup {[id |-> seq.hashtag + 1, title |-> t]},
                      ![w].tag_ids = @ \cup {seq.hashtag + 1}]
                /\ UNCHANGED <<resp, posts, hashtags, post_hashtags>>
           ELSE /\ reqs' = [reqs EXCEPT
                      ![w].todo = @ \ {t},
                      ![w].tag_ids = @ \cup {h.id : h \in HashtagRows(visible, t)}]
                /\ UNCHANGED <<resp, seq, posts, hashtags, post_hashtags>>
    /\ UNCHANGED <<users, profiles, follows, likes, comments, post_text,
                   extracted, now>>

\* PostSerializer.create, post.hashtags.add(*posts_hashtags), leaving
\* transaction.atomic(): the commit, and the 201
CreateCommit(w) ==
    /\ reqs[w].op = "create" /\ reqs[w].pc = "tags"
    /\ reqs[w].todo = {}
    /\ posts' = atomic(posts, {OwnPost(w)}, FALSE)
    /\ hashtags' = atomic(hashtags, reqs[w].new_tags, FALSE)
    /\ post_hashtags' = atomic(post_hashtags,
          {[post |-> reqs[w].pk, hashtag |-> h] : h \in reqs[w].tag_ids}, FALSE)
    /\ Finish(w, "create", HTTP_201_CREATED)
    /\ UNCHANGED <<users, profiles, follows, likes, comments, seq, post_text,
                   extracted, now>>

----------------------------------------------------------------------------
(* DELETE /me: CurrentUserProfileView.destroy *)

\* on_delete=models.CASCADE of a foreign key: the rows of the referencing
\* table that are left when the rows with primary keys pks are deleted
DO_NOTHING(rows, fk, pks) == rows
CASCADE(rows, fk, pks) == {r \in rows : r[fk] \notin pks}

\* Model.delete() of the Profile rows pks: the collector follows every
\* CASCADE foreign key and deletes all it collected in one transaction;
\* Hashtag has no foreign key
DeleteProfiles(pks) ==
    LET gone == {p.id : p \in {q \in posts : q.author \in pks}} IN
    /\ profiles' = {p \in profiles : p.id \notin pks}
    /\ follows' = CASCADE(CASCADE(follows, "follower", pks), "following", pks)
    /\ posts' = CASCADE(posts, "author", pks)
    /\ post_hashtags' = CASCADE(post_hashtags, "post", gone)
    /\ likes' = CASCADE(CASCADE(likes, "liked_by", pks), "post", gone)
    /\ comments' = CASCADE(CASCADE(comments, "author", pks), "post", gone)
    /\ UNCHANGED hashtags

\* DELETE /me handled without interleaving: the two lookups, 404 without a
\* Profile, then instance.delete(), user.delete() and the 204
destroy(u) ==
    /\ u \in users
    /\ IF ProfilesOfUser(u) = {}
       THEN /\ resp' = Response("destroy", u, 0, HTTP_404_NOT_FOUND)
            /\ UNCHANGED <<users, profiles, follows, hashtags, posts,
                           post_hashtags, likes, comments>>
       ELSE /\ DeleteProfiles({p.id : p \in ProfilesOfUser(u)})
            /\ users' = users \ {u}
            /\ resp' = Response("destroy", u, 0, HTTP_204_NO_CONTENT)
    /\ UNCHANGED <<seq, reqs, post_text, extracted, now>>

\* destroy, instance = self.get_object() here and in super().destroy():
\* get_object_or_404 over the profile of the request's user
DestroyStart(w, u) ==
    /\ Idle(w)
    /\ u \in users
    /\ IF ProfilesOfUser(u) = {}
       THEN /\ resp' = Response("destroy", u, 0, HTTP_404_NOT_FOUND)
            /\ UNCHANGED reqs
       ELSE /\ reqs' = [reqs EXCEPT ![w] =
                  [NoRequest EXCEPT !.op = "destroy", !.pc = "profile",
                                    !.user = u, !.row = ProfilePk(u)]]
            /\ UNCHANGED resp
    /\ UNCHANGED <<users, profiles, follows, hashtags, posts, post_hashtags,
                   likes, comments, seq, post_text, extracted, now>>

\* destroy, super().destroy(): perform_destroy runs instance.delete()
DestroyProfile(w) ==
    /\ reqs[w].op = "destroy" /\ reqs[w].pc = "profile"
    /\ DeleteProfiles({reqs[w].row})
    /\ reqs' = [reqs EXCEPT ![w].pc = "user"]
    /\ UNCHANGED <<users, seq, resp, post_text, extracted, now>>

\* destroy, user.delete() and the 204 of super().destroy(); Profile.user is
\* a CASCADE foreign key too
DestroyUser(w) ==
    /\ reqs[w].op = "destroy" /\ reqs[w].pc = "user"
    /\ users' = users \ {reqs[w].user}
    /\ DeleteProfiles({p.id : p \in ProfilesOfUser(reqs[w].user)})
    /\ Finish(w, "destroy", HTTP_204_NO_CONTENT)
    /\ UNCHANGED <<seq, post_text, extracted, now>>

----------------------------------------------------------------------------
(* Specifications *)

InitTables ==
    /\ users = {}
    /\ profiles = {}
    /\ follows = {}
    /\ hashtags = {}
    /\ posts = {}
    /\ post_hashtags = {}
    /\ likes = {}
    /\ comments = {}
    /\ seq = [user |-> 0, profile |-> 0, follow |-> 0, hashtag |-> 0,
              post |-> 0, like |-> 0, comment |-> 0]
    /\ resp = NoResponse
    /\ reqs = [w \in Workers |-> NoRequest]
    /\ now = 0

Init ==
    /\ InitTables
    /\ post_text = <<>>
    /\ extracted = {}

Next ==
    \/ CreateUser
    \/ \E u \in users, pk \in ProfilePks : follow(u, pk)
    \/ \E u \in users, pk \in ProfilePks : unfollow(u, pk)

Spec == Init /\ [][Next]_vars

\* likes alone: the texts of the posts play no part
LikeNext ==
    \/ CreateUser
    \/ \E u \in users : create(u, <<"a">>)
    \/ \E u \in users, pk \in PostPks : like(u, pk)
    \/ \E u \in users, pk \in PostPks : unlike(u, pk)

LikeSpec == Init /\ [][LikeNext]_vars

PostNext ==
    \/ CreateUser
    \/ \E u \in users, text \in SampleTexts : create(u, text)
    \/ \E u \in users, pk \in PostPks : CommentCreate(u, pk)
    \/ \E u \in users, pk \in PostPks : like(u, pk)
    \/ \E u \in users, pk \in PostPks : unlike(u, pk)

PostSpec == Init /\ [][PostNext]_vars

\* the texts handed to the extractor: every text up to MaxTextLen characters
RECURSIVE TextsOfLen(_)
TextsOfLen(n) ==
    IF n = 0 THEN {<<>>}
    ELSE {Append(t, c) : t \in TextsOfLen(n - 1), c \in Alphabet}

Texts == UNION {TextsOfLen(n) : n \in 0..MaxTextLen}

ExtractInit ==
    /\ InitTables
    /\ post_text \in Texts
    /\ extracted = {}

\* a call of PostSerializer.determine_hashtags(post_text)
Extract ==
    /\ resp.op = "none"
    /\ extracted' = determine_hashtags(post_text)
    /\ resp' = Response("determine_hashtags", 0, 0, "returned")
    /\ UNCHANGED <<users, profiles, follows, hashtags, posts, post_hashtags,
                   likes, comments, seq, reqs, post_text, now>>

ExtractNext == Extract

ExtractSpec == ExtractInit /\ [][ExtractNext]_vars

FollowConcNext ==
    \/ CreateUser
    \/ \E w \in Workers, u \in users, pk \in ProfilePks : FollowStart(w, u, pk)
    \/ \E w \in Workers : FollowInsert(w)
    \/ \E w \in Workers, u \in users, pk \in ProfilePks : UnfollowStart(w, u, pk)
    \/ \E w \in Workers : UnfollowDelete(w)

FollowConcSpec == Init /\ [][FollowConcNext]_vars

LikeConcNext ==
    \/ CreateUser
    \/ \E u \in users, text \in SampleTexts : create(u, text)
    \/ \E w \in Workers, u \in users, pk \in PostPks : LikeStart(w, u, pk)
    \/ \E w \in Workers : LikeInsert(w)
    \/ \E w \in Workers, u \in users, pk \in PostPks : UnlikeStart(w, u, pk)
    \/ \E w \in Workers : UnlikeDelete(w)

LikeConcSpec == Init /\ [][LikeConcNext]_vars

CreateConcNext ==
    \/ CreateUser
    \/ \E w \in Workers, u \in users, text \in SampleTexts : CreateStart(w, u, text)
    \/ \E w \in Workers : \E t \in reqs[w].todo : CreateGetOrCreate(w, t)
    \/ \E w \in Workers : CreateCommit(w)

CreateConcSpec == Init /\ [][CreateConcNext]_vars

\* the transactions of post creation alone, the authors bounded apart
AtomicNext ==
    \/ seq.user < MaxTxnUsers /\ CreateUser
    \/ \E w \in Workers, u \in users, text \in SampleTexts :
            CreateStart(w, u, text)
    \/ \E w \in Workers : \E t \in reqs[w].todo : CreateGetOrCreate(w, t)
    \/ \E w \in Workers : CreateCommit(w)

AtomicSpec == Init /\ [][AtomicNext]_vars

ScheduleNext ==
    \/ CreateUser
    \/ Tick
    \/ \E u \in users, text \in SampleTexts, schedule_date \in ScheduleDates :
            perform_create(u, text, schedule_date)

ScheduleSpec == Init /\ [][ScheduleNext]_vars

ProfileNext ==
    \/ CreateUser
    \/ \E u \in users : UpdateUser(u)
    \/ \E u \in users, username \in Usernames : partial_update(u, username)

ProfileSpec == Init /\ [][ProfileNext]_vars

\* the rows inserted so far
DestroyRows == seq.follow + seq.post + seq.like + seq.comment

DestroyNext ==
    \/ seq.user < MaxDestroyUsers /\ CreateUser
    \/ \E u \in users, pk \in ProfilePks :
            DestroyRows < MaxDestroyRows /\ follow(u, pk)
    \/ \E u \in users : DestroyRows < MaxDestroyRows /\ create(u, <<"#", "a">>)
    \/ \E u \in users, pk \in PostPks :
            DestroyRows < MaxDestroyRows /\ like(u, pk)
    \/ \E u \in users, pk \in PostPks :
            DestroyRows < MaxDestroyRows /\ CommentCreate(u, pk)
    \/ \E u \in users : destroy(u)

DestroySpec == Init /\ [][DestroyNext]_vars

DestroyConcNext ==
    \/ seq.user < MaxDestroyUsers /\ CreateUser
    \/ \E u \in users : UpdateUser(u)
    \/ \E w \in Workers, u \in users, pk \in ProfilePks : FollowStart(w, u, pk)
    \/ \E w \in Workers : FollowInsert(w)
    \/ \E u \in users : create(u, <<"#", "a">>)
    \/ \E u \in users, pk \in PostPks : like(u, pk)
    \/ \E u \in users, pk \in PostPks : CommentCreate(u, pk)
    \/ \E w \in Workers, u \in users : DestroyStart(w, u)
    \/ \E w \in Workers : DestroyProfile(w)
    \/ \E w \in Workers : DestroyUser(w)

DestroyConcSpec == Init /\ [][DestroyConcNext]_vars

----------------------------------------------------------------------------
(* Claims about the follow graph (Spec) *)

\* C1: follow(viewer, target) on an existing target has exactly three
\* outcomes, decided on the state before the call: 400 and no new row when
\* the viewer's profile is the target; else 409 and the Follow rows unchanged
\* when the row (viewer, target) exists; else 204 and exactly the row
\* (viewer, target) is created.  No state holds a row with
\* follower = following.
C1_FollowOutcomes ==
    /\ [](\A f \in follows : f.follower # f.following)
    /\ [][resp'.op = "follow" => \A u \in users, pk \in ProfilePks :
            (follow(u, pk) /\ ProfilesByPk(pk) # {}) =>
                IF ProfilePk(u) = pk
                THEN resp'.status = HTTP_400_BAD_REQUEST /\ follows' = follows
                ELSE IF FollowRows(follows, ProfilePk(u), pk) # {}
                THEN resp'.status = HTTP_409_CONFLICT /\ follows' = follows
                ELSE /\ resp'.status = HTTP_204_NO_CONTENT
                     /\ follows \subseteq follows'
                     /\ Cardinality(follows' \ follows) = 1
                     /\ \A f \in follows' \ follows :
                            f.follower = ProfilePk(u) /\ f.following = pk
         ]_vars

\* C1 witness: a second follow of the same pair was answered 409 while the
\* row of the first one is there
C1_Witness ==
    /\ resp.op = "follow"
    /\ resp.status = HTTP_409_CONFLICT
    /\ follows # {}

\* C2: unfollow(viewer, target) responds 404 and leaves the Follow rows
\* unchanged when no row (viewer, target) exists; otherwise it responds 204,
\* no row (viewer, target) exists afterwards and the rows of all other pairs
\* are untouched.
C2_UnfollowOutcomes ==
    [][resp'.op = "unfollow" => \A u \in users, pk \in ProfilePks :
         (unfollow(u, pk) /\ ProfilesByPk(pk) # {}) =>
            IF FollowRows(follows, ProfilePk(u), pk) = {}
            THEN resp'.status = HTTP_404_NOT_FOUND /\ follows' = follows
            ELSE /\ resp'.status = HTTP_204_NO_CONTENT
                 /\ FollowRows(follows', ProfilePk(u), pk) = {}
                 /\ follows' = follows \ FollowRows(follows, ProfilePk(u), pk)
      ]_vars

\* C2 witness: an unfollow was answered 204, its row is gone and a row of
\* another pair is still there
C2_Witness ==
    /\ resp.op = "unfollow"
    /\ resp.status = HTTP_204_NO_CONTENT
    /\ seq.follow > Cardinality(follows)
    /\ follows # {}

\* C7: for every profile the annotations followers_count and following_count
\* equal the number of Follow rows with following = P and with follower = P.
C7_CountsMatchRows ==
    \A p \in profiles :
        /\ ProfileAnnotations(p.id).followers_count
               = Cardinality({f \in follows : f.following = p.id})
        /\ ProfileAnnotations(p.id).following_count
               = Cardinality({f \in follows : f.follower = p.id})

----------------------------------------------------------------------------
(* Claims about posts, likes and comments (LikeSpec, PostSpec) *)

\* C3: like(viewer, post) on an existing post responds 409 and leaves the
\* PostLike rows unchanged when a row (post, viewer's profile) exists;
\* otherwise it creates exactly one row (post, viewer's profile) and
\* responds 204.
C3_LikeOutcomes ==
    [][resp'.op = "like" => \A u \in users, pk \in PostPks :
         (like(u, pk) /\ \E p \in posts : p.id = pk) =>
            IF LikeRows(likes, ProfilePk(u), pk) # {}
            THEN resp'.status = HTTP_409_CONFLICT /\ likes' = likes
            ELSE /\ resp'.status = HTTP_204_NO_CONTENT
                 /\ likes \subseteq likes'
                 /\ Cardinality(likes' \ likes) = 1
                 /\ \A l \in likes' \ likes :
                        l.post = pk /\ l.liked_by = ProfilePk(u)
      ]_vars

\* C3 witness: a like was answered 409 while the row of an earlier like of
\* the same pair is there
C3_Witness ==
    /\ resp.op = "like"
    /\ resp.status = HTTP_409_CONFLICT
    /\ likes # {}

\* what a post query returns for a viewer and a ?hashtags= parameter
PostQueryResults(u, param) ==
    list(u, param) \cup my_posts(u, param) \cup feed(u, param)
        \cup liked(u, param)

\* C8: for every post a post query returns, likes_count is the number of
\* PostLike rows of the post, comments_count the number of its Comment rows,
\* and liked_by_user holds iff a PostLike row (post, viewer) exists.
C8_PostCountsMatchRows ==
    \A u \in users, param \in SampleParams :
        \A r \in PostQueryResults(u, param) :
            /\ r.likes_count = Cardinality({l \in likes : l.post = r.id})
            /\ r.comments_count = Cardinality({c \in comments : c.post = r.id})
            /\ r.liked_by_user <=> LikeRows(likes, ProfilePk(u), r.id) # {}

----------------------------------------------------------------------------
(* Claims about the hashtag extractor (ExtractSpec) *)

\* the whitespace-delimited words of a text: its maximal runs of
\* non-whitespace characters
WordsOf(text) ==
    {SubSeq(text, i, j) : i, j \in 1..Len(text)} \cap
    {w \in UNION {[1..n -> Alphabet \ Whitespace] : n \in 1..Len(text)} :
        \E i \in 1..Len(text) :
            /\ i + Len(w) - 1 <= Len(text)
            /\ SubSeq(text, i, i + Len(w) - 1) = w
            /\ (i = 1 \/ text[i - 1] \in Whitespace)
            /\ (i + Len(w) - 1 = Len(text) \/ text[i + Len(w)] \in Whitespace)}

\* the reference extractor of the claim: only the leading '#' is removed
LeadingHashRemoved(text) ==
    {Tail(w) : w \in {v \in WordsOf(text) : v[1] = "#"}}

\* C9: determine_hashtags(text) is the set of the
\* whitespace-delimited words that begin with '#', each with only its
\* leading '#' removed.
C9_OnlyLeadingHashRemoved ==
    resp.op = "determine_hashtags" => extracted = LeadingHashRemoved(post_text)

----------------------------------------------------------------------------
(* Claims about concurrent requests *)

\* C4: in every reachable state, states reached by concurrent like requests
\* included, unlike(viewer, post) on an existing post responds 404 with the
\* state unchanged when no PostLike row (post, viewer) exists; when at least
\* one exists it goes on to delete and responds 204, and no PostLike row
\* (post, viewer) exists afterwards.
C4_UnlikeOutcomes ==
    [][/\ \A w \in Workers, u \in users, pk \in PostPks :
            (UnlikeStart(w, u, pk) /\ \E p \in posts : p.id = pk) =>
                IF LikeRows(likes, ProfilePk(u), pk) = {}
                THEN resp'.status = HTTP_404_NOT_FOUND /\ likes' = likes
                ELSE reqs'[w].pc = "delete"
       /\ \A w \in Workers :
            UnlikeDelete(w) =>
                /\ resp'.status = HTTP_204_NO_CONTENT
                /\ LikeRows(likes', reqs[w].a, reqs[w].pk) = {}
      ]_vars

\* C5: in every reachable state, under any interleaving of like and unlike
\* requests, there is at most one PostLike row per (post, liked_by) pair.
C5_OneLikePerPair ==
    \A l1, l2 \in likes :
        (l1.post = l2.post /\ l1.liked_by = l2.liked_by) => l1 = l2

\* C6: in every reachable state, under any interleaving of follow and
\* unfollow requests, there is at most one Follow row per
\* (follower, following) pair.
C6_OneFollowPerPair ==
    \A f1, f2 \in follows :
        (f1.follower = f2.follower /\ f1.following = f2.following) => f1 = f2

\* C6 witness: two follows of one pair both passed the existence check, one
\* inserted its row and the uniqueness constraint rejected the other
C6_Witness ==
    /\ resp.op = "follow"
    /\ resp.status = IntegrityError
    /\ follows # {}

\* C17: every follow or unfollow request, under any interleaving with other
\* follow and unfollow requests, ends with one of the documented responses:
\* 204, 400, 409 or 404; a follow that loses the check-then-insert race is
\* answered with one of them, never with an unhandled error.
C17_FollowResponsesDocumented ==
    resp.op \in {"follow", "unfollow"} =>
        resp.status \in {HTTP_204_NO_CONTENT, HTTP_400_BAD_REQUEST,
                         HTTP_409_CONFLICT, HTTP_404_NOT_FOUND}

\* C10: after any interleaving of post creations there is exactly one
\* Hashtag row per extracted title, and every post whose text holds the
\* token references that row.
C10_OneHashtagPerTitle ==
    \A p \in posts : \A t \in determine_hashtags(p.text) :
        /\ Cardinality(HashtagRows(hashtags, t)) = 1
        /\ \A h \in HashtagRows(hashtags, t) :
               [post |-> p.id, hashtag |-> h.id] \in post_hashtags

\* the titles of the Hashtag rows a post is linked to
LinkedTitles(links, tags, pk) ==
    {h.title : h \in {r \in tags : [post |-> pk, hashtag |-> r.id] \in links}}

\* the step in which the creation request of worker w ends
CreateEnds(w) == reqs[w].op = "create" /\ reqs'[w].op = "none"

\* C11: post creation with hashtag attachment is all-or-nothing.  A creation
\* that fails leaves no new Post row, no new Hashtag row and no new link; one
\* that succeeds leaves its Post row and links to exactly the extracted
\* titles.  No state another request reads holds a Post without its links:
\* the three tables change only in the step that ends a creation with 201,
\* and every Post row is linked to exactly the titles extracted from its text.
C11_CreateAllOrNothing ==
    /\ [](\A p \in posts :
            /\ LinkedTitles(post_hashtags, hashtags, p.id)
                   = determine_hashtags(p.text)
            /\ \A l \in post_hashtags :
                   l.post = p.id => \E h \in hashtags : h.id = l.hashtag)
    /\ [][/\ (\A w \in Workers : ~CreateEnds(w)) =>
                UNCHANGED <<posts, hashtags, post_hashtags>>
          /\ \A w \in Workers : CreateEnds(w) =>
                IF resp'.status = HTTP_201_CREATED
                THEN /\ OwnPost(w) \notin posts
                     /\ posts' = posts \cup {OwnPost(w)}
                     /\ hashtags \subseteq hashtags'
                     /\ {h.title : h \in hashtags' \ hashtags}
                            \subseteq determine_hashtags(reqs[w].text)
                     /\ post_hashtags \subseteq post_hashtags'
                     /\ \A l \in post_hashtags' \ post_hashtags :
                            l.post = reqs[w].pk
                     /\ LinkedTitles(post_hashtags', hashtags', reqs[w].pk)
                            = determine_hashtags(reqs[w].text)
                ELSE UNCHANGED <<posts, hashtags, post_hashtags>>
         ]_vars

\* C11 witness: a creation failed at get_or_create after its transaction
\* had inserted its Post row: the primary key is spent and no row has it
C11_Witness ==
    /\ resp.op = "create"
    /\ resp.status = MultipleObjectsReturned
    /\ seq.post > Cardinality(posts)
                     + Cardinality({w \in Workers : reqs[w].op = "create"})
    /\ posts # {}

----------------------------------------------------------------------------
(* Claims about scheduled posts (ScheduleSpec) *)

\* C12: a post-creation request whose schedule_date is present and in the
\* future creates no Post row at request time; the Post row comes into
\* existence only at or after the scheduled time.
C12_FutureScheduleDeferred ==
    /\ [](\A p \in posts : \A t \in p.schedule_date : t <= p.pub_date)
    /\ [][resp'.op = "create" =>
            \A u \in users, text \in SampleTexts, t \in 0..MaxTime :
                (t > now /\ perform_create(u, text, {t})) => posts' = posts
         ]_vars

\* C16: schedule_date is write-only input: no Post row stores a
\* schedule_date supplied by a client.
C16_ScheduleDateNotStored ==
    \A p \in posts : p.schedule_date = NULL

----------------------------------------------------------------------------
(* Claims about DELETE /me (DestroySpec, DestroyConcSpec) *)

\* no row references a Profile, a Post or a Hashtag that does not exist
NoDanglingReference ==
    LET profile_pks == {p.id : p \in profiles}
        post_pks == {p.id : p \in posts}
    IN  /\ \A f \in follows :
               f.follower \in profile_pks /\ f.following \in profile_pks
        /\ \A p \in posts : p.author \in profile_pks
        /\ \A l \in likes : l.liked_by \in profile_pks /\ l.post \in post_pks
        /\ \A c \in comments : c.author \in profile_pks /\ c.post \in post_pks
        /\ \A l \in post_hashtags :
               l.post \in post_pks /\ \E h \in hashtags : h.id = l.hashtag

\* C13: DELETE /me removes the Profile and every Post, Comment, PostLike and
\* Follow row that references it, and the Comments and PostLikes on its
\* deleted Posts, and then the user; in every reachable state no Post,
\* Comment, PostLike or Follow row references a Profile or Post that no
\* longer exists, and no Hashtag row is ever deleted.
C13_DeleteCascades ==
    /\ []NoDanglingReference
    /\ [][/\ hashtags \subseteq hashtags'
          /\ resp'.op = "destroy" => \A u \in users :
                (destroy(u) /\ ProfilesOfUser(u) # {}) =>
                    LET pk == ProfilePk(u)
                        own == {p.id : p \in {q \in posts : q.author = pk}}
                    IN  /\ resp'.status = HTTP_204_NO_CONTENT
                        /\ users' = users \ {u}
                        /\ profiles' = {p \in profiles : p.id # pk}
                        /\ follows' = {f \in follows :
                                          f.follower # pk /\ f.following # pk}
                        /\ posts' = {p \in posts : p.author # pk}
                        /\ likes' = {l \in likes :
                                        l.liked_by # pk /\ l.post \notin own}
                        /\ comments' = {c \in comments :
                                           c.author # pk /\ c.post \notin own}
         ]_vars

\* C13 witness: a DELETE /me was answered 204 after it removed a post that
\* another user had liked and commented; that user and the hashtag of the
\* post are still there
C13_Witness ==
    /\ resp.op = "destroy"
    /\ resp.status = HTTP_204_NO_CONTENT
    /\ seq.post > 0 /\ posts = {}
    /\ seq.like > 0 /\ likes = {}
    /\ seq.comment > 0 /\ comments = {}
    /\ hashtags # {} /\ post_hashtags = {}
    /\ profiles # {}

\* C14: in every reachable state every user that exists has exactly one
\* Profile: registration creates it, saving an existing user creates no
\* second one, and DELETE /me leaves no state another request can read in
\* which a user exists without a Profile.
C14_OneProfilePerUser ==
    \A u \in users : Cardinality(ProfilesOfUser(u)) = 1

----------------------------------------------------------------------------
(* Claims about profiles (ProfileSpec) *)

\* C15: in every reachable state no two distinct Profile rows have the same
\* username, the profiles created on registration and those edited through
\* PATCH /me included.
C15_UsernameUnique ==
    \A p1, p2 \in profiles : p1.username = p2.username => p1 = p2

====
